---- MODULE Spec2Model ----
(***************************************************************************)
(* Model of mcp_jira_server.py: the MCPJiraServer tool handlers, with the  *)
(* JIRA client as an external collaborator whose every call returns a      *)
(* nondeterministic response or raises.  `calls` is the trace of the calls *)
(* made on the client during the current tool invocation.                  *)
(***************************************************************************)
EXTENDS Integers, Sequences, FiniteSets, TLC

VARIABLES
    creds,              \* JIRA_URL, JIRA_USERNAME and JIRA_TOKEN all set
    jira_client,        \* "None" or "JIRA"
    pc,                 \* position of the handler being run
    tool,               \* name passed to handle_call_tool
    arguments,          \* the arguments dictionary of the invocation
    calls,              \* calls made on the JIRA client in this invocation
    issues,             \* the list being iterated while collecting
    idx,                \* loop index (1-based) into the list being iterated
    threshold_date,     \* datetime.now() - timedelta(days=days_threshold)
    now,                \* the clock reading datetime.now() the cutoff was taken from
    issues_to_process,  \* comment_on_stale_issues: collected candidates
    stale_issues,       \* find_stale_issues: collected stale items
    result,             \* the text being built, as a sequence of line items
    commented_count,
    failed_count,
    skipped_count,
    ret                 \* what the last invocation returned

vars == <<creds, jira_client, pc, tool, arguments, calls, issues, idx,
          threshold_date, now, issues_to_process, stale_issues, result,
          commented_count, failed_count, skipped_count, ret>>

----------------------------------------------------------------------------
(* Bounds of the model *)

MaxIssues == 2      \* longest search result / specific_issues list
MaxComments == 2    \* longest comment list returned for one issue
MaxTime == 1        \* timestamps and the clock range over 0..MaxTime (days)

Keys == {"K-1", "K-2"}
Times == 0 .. MaxTime
Thresholds == {0, 1}

SeqsUpTo(S, n) == UNION {[1 .. k -> S] : k \in 0 .. n}

RECURSIVE NoDup(_)
NoDup(s) ==
    IF Len(s) <= 1 THEN TRUE
    ELSE /\ \A i \in 2 .. Len(s) : s[i].key # s[1].key
         /\ NoDup(Tail(s))

----------------------------------------------------------------------------
(* Values exchanged with the JIRA client *)

\* an issue resource: its key and whether fields.assignee is set
Issues == [key : Keys, assignee : BOOLEAN]

\* a search never returns the same issue twice
SearchResults == {s \in SeqsUpTo(Issues, MaxIssues) : NoDup(s)}

\* comment.created: an ISO string without zone ("naive"), with a trailing Z,
\* a string that is no ISO date ("garbage"), or no string at all ("none")
Created ==
    [form : {"naive", "Z"}, t : Times]
        \cup {[form |-> "garbage", t |-> 0], [form |-> "none", t |-> 0]}

CommentLists == SeqsUpTo(Created, MaxComments)

\* how a call on the client ends
CallOutcomes == {"ok", "JIRAError", "Exception"}

Call(op, key, out, arg) == [op |-> op, key |-> key, out |-> out, arg |-> arg]

Line(kind, key) == [kind |-> kind, key |-> key]

NoSummary ==
    [processed |-> 0, shown |-> "none", posted |-> 0, failed |-> 0,
     skipped |-> 0, ready |-> 0]

Return(kind, lines, summary) ==
    [kind |-> kind, lines |-> lines, summary |-> summary]

----------------------------------------------------------------------------
(* arguments.get(key, default) *)

Get(a, k, d) == IF k \in DOMAIN a THEN a[k] ELSE d

\* Python truthiness of a list argument (None is modelled as the empty list)
\* and of a string argument (None is modelled as the empty string)
TruthyList(x) == Len(x) > 0
TruthyStr(x) == x # ""

DefaultExcludeStatuses == <<"Closed", "Release Pending", "On_QA", "Verified">>

----------------------------------------------------------------------------
(* The JQL filter, as the sequence of its AND-ed clauses *)

Clause(field, op, vals) == [field |-> field, op |-> op, vals |-> vals]

\* a plausible variant: every version v also matches its "v.z" stream
RECURSIVE ExpandZ(_)
ExpandZ(vs) ==
    IF vs = <<>> THEN <<>>
    ELSE <<vs[1], vs[1] \o ".z">> \o ExpandZ(Tail(vs))

VersionClauseExpanded(affects_versions) ==
    IF ~TruthyList(affects_versions) THEN <<>>
    ELSE <<Clause("affectedVersion", "in", ExpandZ(affects_versions))>>

\* "Add Affects Version filter if provided"
VersionClause(affects_versions) ==
    IF ~TruthyList(affects_versions) THEN <<>>
    ELSE IF Len(affects_versions) = 1
         THEN <<Clause("affectedVersion", "=", <<affects_versions[1]>>)>>
         ELSE <<Clause("affectedVersion", "in", affects_versions)>>

\* find_stale_issues: base_jql
FindStaleJql(project_key, status_filter, affects_versions) ==
    <<Clause("project", "=", <<project_key>>),
      Clause("assignee", "is not EMPTY", <<>>)>>
    \o (IF TruthyStr(status_filter)
        THEN <<Clause("status", "=", <<status_filter>>)>> ELSE <<>>)
    \o VersionClause(affects_versions)

\* comment_on_stale_issues: base_jql
CosJql(project_key, exclude_statuses, affects_versions) ==
    <<Clause("project", "=", <<project_key>>),
      Clause("assignee", "is not EMPTY", <<>>)>>
    \o (IF TruthyList(exclude_statuses)
        THEN <<Clause("status", "!=", exclude_statuses)>> ELSE <<>>)
    \o VersionClause(affects_versions)

Range(s) == {s[i] : i \in DOMAIN s}

\* the values an issue's affected version may take under the filter
VersionMembership(jql) ==
    UNION {Range(jql[i].vals) : i \in {j \in DOMAIN jql : jql[j].field = "affectedVersion"}}

----------------------------------------------------------------------------
(* Staleness of one issue, from the comments the client returned *)

\* comment_date_str normalised, datetime.fromisoformat, tzinfo dropped:
\* 'T' in None raises TypeError, a non-ISO string raises ValueError, a
\* trailing Z becomes +00:00 and the zone is then discarded
ParseCreated(created) ==
    CASE created.form = "none" -> [res |-> "TypeError", t |-> 0]
      [] created.form = "garbage" -> [res |-> "ValueError", t |-> 0]
      [] created.form = "Z" -> [res |-> "ok", t |-> created.t]
      [] OTHER -> [res |-> "ok", t |-> created.t]

Verdict(exc, is_stale, latest) ==
    [exc |-> exc, is_stale |-> is_stale, latest |-> latest]

\* a plausible variant: issues without comments are always stale
FindStaleVerdictAlways(comments, include_no_comments, cutoff) ==
    IF comments = <<>> THEN Verdict("none", TRUE, "No comments")
    ELSE LET p == ParseCreated(comments[Len(comments)])
         IN  CASE p.res = "TypeError" -> Verdict("TypeError", FALSE, "")
               [] p.res = "ValueError" -> Verdict("none", TRUE, "str")
               [] OTHER -> Verdict("none", p.t < cutoff, "datetime")

\* a plausible variant: the comparison with the cutoff is not strict
FindStaleVerdictInclusive(comments, include_no_comments, cutoff) ==
    IF comments = <<>>
    THEN Verdict("none", include_no_comments,
                 IF include_no_comments THEN "No comments" ELSE "None")
    ELSE LET p == ParseCreated(comments[Len(comments)])
         IN  CASE p.res = "TypeError" -> Verdict("TypeError", FALSE, "")
               [] p.res = "ValueError" -> Verdict("none", TRUE, "str")
               [] OTHER -> Verdict("none", p.t <= cutoff, "datetime")

\* find_stale_issues, body of the loop over issues: is_stale and
\* latest_comment_date, or the exception that leaves the inner statements
FindStaleVerdict(comments, include_no_comments, cutoff) ==
    IF comments = <<>>
    THEN Verdict("none", include_no_comments,
                 IF include_no_comments THEN "No comments" ELSE "None")
    ELSE LET p == ParseCreated(comments[Len(comments)])
         IN  CASE p.res = "TypeError" -> Verdict("TypeError", FALSE, "")
               [] p.res = "ValueError" -> Verdict("none", TRUE, "str")
               [] OTHER -> Verdict("none", p.t < cutoff, "datetime")

\* a plausible variant: an unparseable date is not taken as stale
CosVerdictStrict(comments, cutoff) ==
    IF comments = <<>> THEN Verdict("none", TRUE, "")
    ELSE LET p == ParseCreated(comments[Len(comments)])
         IN  CASE p.res = "TypeError" -> Verdict("TypeError", FALSE, "")
               [] p.res = "ValueError" -> Verdict("none", FALSE, "")
               [] OTHER -> Verdict("none", p.t < cutoff, "")

\* comment_on_stale_issues, body of the loop over all_issues
CosVerdict(comments, cutoff) ==
    IF comments = <<>> THEN Verdict("none", TRUE, "")
    ELSE LET p == ParseCreated(comments[Len(comments)])
         IN  CASE p.res = "TypeError" -> Verdict("TypeError", FALSE, "")
               [] p.res = "ValueError" -> Verdict("none", TRUE, "")
               [] OTHER -> Verdict("none", p.t < cutoff, "")

\* a plausible variant: the cutoff lies days_threshold after the clock reading
ThresholdDateAhead(clock, days_threshold) == clock + days_threshold

\* threshold_date = datetime.now() - timedelta(days=days_threshold)
ThresholdDate(clock, days_threshold) == clock - days_threshold

\* find_stale_issues: stale_issues after one iteration of `for issue in
\* issues`, where comments() answered out and, if it returned, comments
FsStep(stale, issue, out, comments, include_no_comments, cutoff) ==
    IF out # "ok" THEN stale   \* except Exception: continue
    ELSE LET v == FindStaleVerdict(comments, include_no_comments, cutoff) IN
         IF v.exc = "none" /\ v.is_stale
         THEN Append(stale, [issue |-> issue,
                             latest_comment_date |-> v.latest,
                             comments_count |-> Len(comments)])
         ELSE stale

\* comment_on_stale_issues: issues_to_process after one iteration of
\* `for issue in all_issues`
CosStep(to_process, issue, out, comments, cutoff) ==
    IF out # "ok" THEN to_process   \* except Exception: continue
    ELSE LET v == CosVerdict(comments, cutoff) IN
         IF v.exc = "none" /\ v.is_stale
         THEN Append(to_process, issue)
         ELSE to_process

----------------------------------------------------------------------------
(* Tool invocations the host may send *)

DefaultDaysThreshold == 14
SearchMaxResults == 1000

ModeChoices == {<<>>} \cup {("mode" :> m) : m \in {"dry_run", "live", "preview"}}

VersionLists == {<<"4.18">>, <<"4.18", "4.19">>}

\* comment_on_stale_issues with explicit targeting
CosSpecificArgs ==
    {("target_scope" :> "specific_issues") @@ ("specific_issues" :> ks) @@ m :
        ks \in SeqsUpTo(Keys, MaxIssues), m \in ModeChoices}
    \cup {("target_scope" :> "specific_issues")}

\* comment_on_stale_issues with automatic discovery
CosAllStaleArgs ==
    {("project_key" :> "PROJ") @@ ("days_threshold" :> 0) @@ m : m \in ModeChoices}
    \cup {("project_key" :> "PROJ") @@ ("days_threshold" :> d) : d \in Thresholds}
    \cup {("project_key" :> "PROJ") @@ ("affects_versions" :> vs) : vs \in VersionLists}
    \cup {("project_key" :> "PROJ") @@ ("target_scope" :> "all_stale")
            @@ ("exclude_statuses" :> <<>>) @@ ("affects_versions" :> <<>>)}
    \cup {<<>>, ("project_key" :> ""), ("mode" :> "live")}

FindStaleArgs ==
    {("project_key" :> "PROJ") @@ ("days_threshold" :> d) @@ ("include_no_comments" :> b) :
        d \in Thresholds, b \in BOOLEAN}
    \cup {("project_key" :> "PROJ") @@ ("affects_versions" :> vs) : vs \in VersionLists}
    \cup {("project_key" :> "PROJ") @@ ("status_filter" :> "Open")}

AddCommentArgs ==
    {("issue_key" :> k) @@ ("comment" :> "ping") @@ m : k \in Keys, m \in ModeChoices}

DefaultMaxResults == 50

SearchArgs ==
    {("jql" :> "project = PROJ")}
    \cup {("jql" :> "project = PROJ") @@ ("max_results" :> n) : n \in {10, 100}}

GetIssueArgs == {("issue_key" :> k) : k \in Keys}

CreateIssueArgs ==
    LET required == ("project_key" :> "PROJ") @@ ("issue_type" :> "Bug")
                    @@ ("summary" :> "s") @@ ("description" :> "d")
    IN  {required, required @@ ("assignee" :> "jdoe"),
         required @@ ("priority" :> "")}

StatusNames == {"Done", "done", "Rejected"}

UpdateIssueArgs ==
    LET key == ("issue_key" :> "K-1") IN
    {key, key @@ ("summary" :> "s")}
    \cup {key @@ ("status" :> st) : st \in StatusNames}
    \cup {key @@ ("assignee" :> "jdoe") @@ ("status" :> st) : st \in StatusNames}

ToolCalls ==
    ({"jira_comment_on_stale_issues"} \X (CosSpecificArgs \cup CosAllStaleArgs))
    \cup ({"jira_find_stale_issues"} \X FindStaleArgs)
    \cup ({"jira_add_comment"} \X AddCommentArgs)
    \cup ({"jira_search_issues"} \X SearchArgs)
    \cup ({"jira_get_issue"} \X GetIssueArgs)
    \cup ({"jira_create_issue"} \X CreateIssueArgs)
    \cup ({"jira_update_issue"} \X UpdateIssueArgs)
    \cup {<<"jira_nonexistent", <<>>>>}

KnownTools ==
    {"jira_search_issues", "jira_get_issue", "jira_create_issue",
     "jira_update_issue", "jira_add_comment", "jira_find_stale_issues",
     "jira_comment_on_stale_issues"}

----------------------------------------------------------------------------
Init ==
    /\ creds \in BOOLEAN
    /\ jira_client = "None"
    /\ pc = "idle"
    /\ tool = ""
    /\ arguments = <<>>
    /\ calls = <<>>
    /\ issues = <<>>
    /\ idx = 1
    /\ threshold_date = 0
    /\ now = 0
    /\ issues_to_process = <<>>
    /\ stale_issues = <<>>
    /\ result = <<>>
    /\ commented_count = 0
    /\ failed_count = 0
    /\ skipped_count = 0
    /\ ret = Return("none", <<>>, NoSummary)

\* a plausible variant: no handler at the boundary, the exception leaves
\* handle_call_tool
BoundaryPropagates == Return("exception", <<>>, NoSummary)

\* handle_call_tool, `except Exception as e`: the text "Error: ..."
BoundaryError == Return("error", <<>>, NoSummary)

\* a handler reaches a return statement with the text r
Finish(r) ==
    /\ ret' = r
    /\ pc' = "done"

Locals == <<issues, idx, threshold_date, now, issues_to_process, stale_issues,
            result, commented_count, failed_count, skipped_count>>

FreshLocals ==
    /\ issues' = <<>>
    /\ idx' = 1
    /\ threshold_date' = 0
    /\ now' = 0
    /\ issues_to_process' = <<>>
    /\ stale_issues' = <<>>
    /\ result' = <<>>
    /\ commented_count' = 0
    /\ failed_count' = 0
    /\ skipped_count' = 0

\* a plausible variant: the client is created anew on every call
ClientAlwaysCreated(client) == TRUE

\* `if not self.jira_client`: the handle is still the None of __init__
ClientUnset(client) == client = "None"

\* handle_call_tool: lazy init_jira_client, then dispatch on the tool name
HandleCallTool(name, args) ==
    /\ pc = "idle"
    /\ tool' = name
    /\ arguments' = args
    /\ UNCHANGED <<creds, Locals>>
    /\ IF ClientUnset(jira_client)
       THEN IF ~creds
            THEN \* init_jira_client raises ValueError
                 /\ calls' = <<>>
                 /\ jira_client' = jira_client
                 /\ Finish(BoundaryError)
            ELSE \E out \in CallOutcomes :
                 /\ calls' = <<Call("JIRA", "", out, <<>>)>>
                 /\ IF out = "ok"
                    THEN /\ jira_client' = "JIRA"
                         /\ IF name \in KnownTools
                            THEN pc' = name /\ ret' = Return("none", <<>>, NoSummary)
                            ELSE Finish(Return("unknown_tool", <<>>, NoSummary))
                    ELSE /\ jira_client' = jira_client
                         /\ Finish(BoundaryError)
       ELSE /\ calls' = <<>>
            /\ jira_client' = jira_client
            /\ IF name \in KnownTools
               THEN pc' = name /\ ret' = Return("none", <<>>, NoSummary)
               ELSE Finish(Return("unknown_tool", <<>>, NoSummary))

----------------------------------------------------------------------------
(* comment_on_stale_issues *)

Mode == Get(arguments, "mode", "dry_run")
TargetScope == Get(arguments, "target_scope", "all_stale")
SpecificIssues == Get(arguments, "specific_issues", <<>>)
ProjectKey == Get(arguments, "project_key", "")
DaysThreshold == Get(arguments, "days_threshold", DefaultDaysThreshold)
ExcludeStatuses == Get(arguments, "exclude_statuses", DefaultExcludeStatuses)
AffectsVersions == Get(arguments, "affects_versions", <<>>)

\* a plausible variant: `if mode:`
ModeTruthy(mode) == mode # ""

\* the gate in front of the mutating call: `if mode == "live"`
ModeIsLive(mode) == mode = "live"

\* the banner's test: `if mode == "dry_run"`
ModeIsDryRun(mode) == mode = "dry_run"

\* what the collection loops remember of a comments() response
CommentsSeen(cs) ==
    [count |-> Len(cs),
     latest |-> IF cs = <<>> THEN [form |-> "absent", t |-> 0] ELSE cs[Len(cs)]]

\* a plausible variant: discovery starts without looking at the project key
ProjectKeyUnchecked(project_key) == TRUE

\* discovery, `if not project_key`: the test that lets the search go ahead
ProjectKeyGiven(project_key) == TruthyStr(project_key)

\* argument parsing, scope validation and, for discovery, the search
CosStart ==
    /\ pc = "jira_comment_on_stale_issues"
    /\ UNCHANGED <<creds, jira_client, tool, arguments, issues_to_process,
                   stale_issues, commented_count, failed_count, skipped_count>>
    /\ IF TargetScope = "specific_issues"
       THEN /\ UNCHANGED <<calls, issues, threshold_date, now>>
            /\ IF ~TruthyList(SpecificIssues)
               THEN /\ Finish(Return("no_specific_issues", <<>>, NoSummary))
                    /\ UNCHANGED <<idx, result>>
               ELSE /\ result' = <<Line("processing_specific", "")>>
                    /\ idx' = 1
                    /\ pc' = "cos_fetch"
                    /\ UNCHANGED ret
       ELSE IF ~ProjectKeyGiven(ProjectKey)
            THEN /\ Finish(Return("project_key_required", <<>>, NoSummary))
                 /\ UNCHANGED <<calls, issues, threshold_date, now, idx, result>>
            ELSE \E out \in CallOutcomes :
                 /\ calls' = Append(calls,
                        Call("search_issues", "", out,
                             [jql |-> CosJql(ProjectKey, ExcludeStatuses, AffectsVersions),
                              maxResults |-> SearchMaxResults]))
                 /\ UNCHANGED result
                 /\ CASE out = "JIRAError" ->
                           /\ Finish(Return("jira_error", <<>>, NoSummary))
                           /\ UNCHANGED <<issues, threshold_date, now, idx>>
                      [] out = "Exception" ->
                           /\ Finish(Return("error", <<>>, NoSummary))
                           /\ UNCHANGED <<issues, threshold_date, now, idx>>
                      [] OTHER ->
                           \E all_issues \in SearchResults :
                             IF all_issues = <<>>
                             THEN /\ Finish(Return("no_active_issues", <<>>, NoSummary))
                                  /\ UNCHANGED <<issues, threshold_date, now, idx>>
                             ELSE \E clock \in Times :
                                  /\ now' = clock
                                  /\ threshold_date' = ThresholdDate(clock, DaysThreshold)
                                  /\ issues' = all_issues
                                  /\ idx' = 1
                                  /\ pc' = "cos_classify"
                                  /\ UNCHANGED ret

\* one iteration of `for issue_key in specific_issues`
CosFetch ==
    /\ pc = "cos_fetch"
    /\ idx <= Len(SpecificIssues)
    /\ UNCHANGED <<creds, jira_client, tool, arguments, issues, threshold_date, now,
                   stale_issues, commented_count, failed_count, skipped_count>>
    /\ LET issue_key == SpecificIssues[idx] IN
       \E out \in CallOutcomes :
         CASE out = "JIRAError" ->
                /\ calls' = Append(calls, Call("issue", issue_key, out, <<>>))
                /\ result' = Append(result, Line("failed_to_fetch", issue_key))
                /\ idx' = idx + 1
                /\ UNCHANGED <<issues_to_process, pc, ret>>
           [] out = "Exception" ->
                /\ calls' = Append(calls, Call("issue", issue_key, out, <<>>))
                /\ Finish(Return("error", <<>>, NoSummary))
                /\ UNCHANGED <<issues_to_process, result, idx>>
           [] OTHER ->
                \E assignee \in BOOLEAN :
                  /\ calls' = Append(calls, Call("issue", issue_key, out, assignee))
                  /\ IF assignee  \* "Only process if has assignee"
                     THEN /\ issues_to_process' =
                               Append(issues_to_process,
                                      [key |-> issue_key, assignee |-> assignee])
                          /\ UNCHANGED result
                     ELSE /\ result' = Append(result,
                                              Line("skipping_no_assignee", issue_key))
                          /\ UNCHANGED issues_to_process
                  /\ idx' = idx + 1
                  /\ UNCHANGED <<pc, ret>>

\* one iteration of `for issue in all_issues`
CosClassify ==
    /\ pc = "cos_classify"
    /\ idx <= Len(issues)
    /\ UNCHANGED <<creds, jira_client, tool, arguments, issues, threshold_date, now,
                   stale_issues, result, commented_count, failed_count,
                   skipped_count, pc, ret>>
    /\ idx' = idx + 1
    /\ LET issue == issues[idx] IN
       \E out \in CallOutcomes :
         IF out # "ok"
         THEN /\ calls' = Append(calls, Call("comments", issue.key, out, <<>>))
              /\ issues_to_process' =
                     CosStep(issues_to_process, issue, out, <<>>, threshold_date)
         ELSE \E comments \in CommentLists :
              /\ calls' = Append(calls,
                     Call("comments", issue.key, out, CommentsSeen(comments)))
              /\ issues_to_process' =
                     CosStep(issues_to_process, issue, out, comments, threshold_date)

\* after the collection loop: the header, the empty case, the mode banner
CosBegin ==
    /\ \/ pc = "cos_fetch" /\ idx > Len(SpecificIssues)
       \/ pc = "cos_classify" /\ idx > Len(issues)
    /\ UNCHANGED <<creds, jira_client, tool, arguments, calls, issues,
                   threshold_date, now, issues_to_process, stale_issues,
                   commented_count, failed_count, skipped_count>>
    /\ LET header == IF pc = "cos_classify"
                     THEN <<Line("found_stale", "")>> ELSE result
       IN  IF issues_to_process = <<>>
           THEN /\ Finish(Return("no_stale_issues", <<>>, NoSummary))
                /\ result' = header
                /\ UNCHANGED idx
           ELSE /\ result' = Append(header,
                                    IF ModeIsDryRun(Mode)
                                    THEN Line("dry_run_mode", "")
                                    ELSE Line("live_mode", ""))
                /\ idx' = 1
                /\ pc' = "cos_post"
                /\ UNCHANGED ret

\* a plausible variant: the success count is bumped before the call ends
PostCountsEarly(out, commented, failed) ==
    IF out = "ok" THEN <<commented + 1, failed>> ELSE <<commented + 1, failed + 1>>

\* commented_count and failed_count after add_comment returned or raised
\* JIRAError
PostCounts(out, commented, failed) ==
    IF out = "ok" THEN <<commented + 1, failed>> ELSE <<commented, failed + 1>>

\* a plausible variant: the call goes through a limiter's acquire()
PostCallsLimited(key, out) ==
    <<Call("acquire", "", "ok", <<>>), Call("add_comment", key, out, <<>>)>>

\* a plausible variant: a failed call is attempted a second time
PostCallsRetried(key, out) ==
    IF out = "ok"
    THEN <<Call("add_comment", key, out, <<>>)>>
    ELSE <<Call("add_comment", key, out, <<>>), Call("add_comment", key, out, <<>>)>>

\* "Actually post the comment": the calls made for one candidate
PostCalls(key, out) == <<Call("add_comment", key, out, <<>>)>>

\* a plausible variant: the candidates are taken from the end
CandidateReversed(to_process, i) == to_process[Len(to_process) + 1 - i]

\* `for issue in issues_to_process`: the candidate of the i-th iteration
Candidate(to_process, i) == to_process[i]

\* one iteration of `for issue in issues_to_process`
CosProcess ==
    /\ pc = "cos_post"
    /\ idx <= Len(issues_to_process)
    /\ UNCHANGED <<creds, jira_client, tool, arguments, issues, threshold_date, now,
                   issues_to_process, stale_issues>>
    /\ LET issue == Candidate(issues_to_process, idx) IN
       IF ~issue.assignee
       THEN /\ result' = Append(result, Line("skipping", issue.key))
            /\ skipped_count' = skipped_count + 1
            /\ idx' = idx + 1
            /\ UNCHANGED <<calls, commented_count, failed_count, pc, ret>>
       ELSE \* the comments fetched "for context" only feed the text, and
            \* whatever the call returns or raises is swallowed
            LET context == IF TargetScope = "all_stale"
                           THEN <<Call("comments", issue.key, "any", <<>>)>>
                           ELSE <<>>
                item == Line("comment_to_post", issue.key)
            IN  /\ UNCHANGED skipped_count
                /\ IF ModeIsLive(Mode)
                   THEN \E out \in CallOutcomes :
                        /\ calls' = calls \o context \o PostCalls(issue.key, out)
                        /\ IF out = "Exception"
                           THEN /\ Finish(Return("error", <<>>, NoSummary))
                                /\ UNCHANGED <<result, idx, commented_count,
                                               failed_count>>
                           ELSE /\ result' = result \o
                                      <<item, Line(IF out = "ok" THEN "posted"
                                                   ELSE "failed_to_post", issue.key)>>
                                /\ commented_count' =
                                      PostCounts(out, commented_count, failed_count)[1]
                                /\ failed_count' =
                                      PostCounts(out, commented_count, failed_count)[2]
                                /\ idx' = idx + 1
                                /\ UNCHANGED <<pc, ret>>
                   ELSE /\ calls' = calls \o context
                        /\ result' = result \o <<item, Line("would_post", issue.key)>>
                        /\ idx' = idx + 1
                        /\ UNCHANGED <<commented_count, failed_count, pc, ret>>

\* the summary printed after the loop
Summary(mode, processed, commented, failed, skipped) ==
    IF mode = "live"
    THEN [processed |-> processed, shown |-> "live", posted |-> commented,
          failed |-> failed, skipped |-> skipped, ready |-> 0]
    ELSE [processed |-> processed, shown |-> "preview", posted |-> 0,
          failed |-> 0, skipped |-> skipped, ready |-> processed - skipped]

CosSummary ==
    /\ pc = "cos_post"
    /\ idx > Len(issues_to_process)
    /\ Finish(Return("report", result,
                     Summary(Mode, Len(issues_to_process), commented_count,
                             failed_count, skipped_count)))
    /\ UNCHANGED <<creds, jira_client, tool, arguments, calls, issues, idx,
                   threshold_date, now, issues_to_process, stale_issues, result,
                   commented_count, failed_count, skipped_count>>

----------------------------------------------------------------------------
(* find_stale_issues *)

IncludeNoComments == Get(arguments, "include_no_comments", TRUE)
StatusFilter == Get(arguments, "status_filter", "")

\* the query and the search
FsStart ==
    /\ pc = "jira_find_stale_issues"
    /\ UNCHANGED <<creds, jira_client, tool, arguments, issues_to_process,
                   stale_issues, result, commented_count, failed_count,
                   skipped_count>>
    /\ \E out \in CallOutcomes :
         /\ calls' = Append(calls,
                Call("search_issues", "", out,
                     [jql |-> FindStaleJql(ProjectKey, StatusFilter, AffectsVersions),
                      maxResults |-> SearchMaxResults]))
         /\ CASE out = "JIRAError" ->
                   /\ Finish(Return("jira_error", <<>>, NoSummary))
                   /\ UNCHANGED <<issues, threshold_date, now, idx>>
              [] out = "Exception" ->
                   /\ Finish(Return("error", <<>>, NoSummary))
                   /\ UNCHANGED <<issues, threshold_date, now, idx>>
              [] OTHER ->
                   \E found \in SearchResults :
                     IF found = <<>>
                     THEN /\ Finish(Return("no_issues_found", <<>>, NoSummary))
                          /\ UNCHANGED <<issues, threshold_date, now, idx>>
                     ELSE \E clock \in Times :
                          /\ now' = clock
                          /\ threshold_date' = ThresholdDate(clock, DaysThreshold)
                          /\ issues' = found
                          /\ idx' = 1
                          /\ pc' = "fs_classify"
                          /\ UNCHANGED ret

\* one iteration of `for issue in issues`
FsClassify ==
    /\ pc = "fs_classify"
    /\ idx <= Len(issues)
    /\ UNCHANGED <<creds, jira_client, tool, arguments, issues, threshold_date, now,
                   issues_to_process, result, commented_count, failed_count,
                   skipped_count, pc, ret>>
    /\ idx' = idx + 1
    /\ LET issue == issues[idx] IN
       \E out \in CallOutcomes :
         IF out # "ok"
         THEN /\ calls' = Append(calls, Call("comments", issue.key, out, <<>>))
              /\ stale_issues' = FsStep(stale_issues, issue, out, <<>>,
                                        IncludeNoComments, threshold_date)
         ELSE \E comments \in CommentLists :
              /\ calls' = Append(calls,
                     Call("comments", issue.key, out, CommentsSeen(comments)))
              /\ stale_issues' = FsStep(stale_issues, issue, out, comments,
                                        IncludeNoComments, threshold_date)

\* the listing returned after the loop
FsFinish ==
    /\ pc = "fs_classify"
    /\ idx > Len(issues)
    /\ UNCHANGED <<creds, jira_client, tool, arguments, calls, issues, idx,
                   threshold_date, now, issues_to_process, stale_issues, result,
                   commented_count, failed_count, skipped_count>>
    /\ IF stale_issues = <<>>
       THEN Finish(Return("no_stale_issues", <<>>, NoSummary))
       ELSE Finish(Return("stale_list",
                          [i \in DOMAIN stale_issues |->
                              Line("stale", stale_issues[i].issue.key)],
                          NoSummary))

----------------------------------------------------------------------------
(* add_comment *)

\* a plausible variant: the call is gated by a mode defaulting to dry_run
AddCommentCallsGated(args, out) ==
    IF Get(args, "mode", "dry_run") = "live"
    THEN <<Call("add_comment", Get(args, "issue_key", ""), out,
                Get(args, "comment", ""))>>
    ELSE <<>>

\* the calls add_comment makes on the client
AddCommentCalls(args, out) ==
    <<Call("add_comment", Get(args, "issue_key", ""), out, Get(args, "comment", ""))>>

AddComment ==
    /\ pc = "jira_add_comment"
    /\ UNCHANGED <<creds, jira_client, tool, arguments, Locals>>
    /\ \E out \in CallOutcomes :
         /\ calls' = calls \o AddCommentCalls(arguments, out)
         /\ Finish(CASE out = "ok" -> Return("comment_added", <<>>, NoSummary)
                    [] out = "JIRAError" -> Return("jira_error", <<>>, NoSummary)
                    [] OTHER -> BoundaryError)

----------------------------------------------------------------------------
(* search_issues, get_issue, create_issue, update_issue *)

\* the text for a call that raised: JIRAError is caught by the handler,
\* anything else by handle_call_tool
Raised(out) ==
    IF out = "JIRAError" THEN Return("jira_error", <<>>, NoSummary)
    ELSE BoundaryError

\* a plausible variant: the requested count is capped
SearchLimitClamped(args) ==
    LET n == Get(args, "max_results", DefaultMaxResults)
    IN  IF n > 25 THEN 25 ELSE n

\* search_issues: max_results = arguments.get("max_results", 50), passed on
\* as maxResults
SearchLimit(args) == Get(args, "max_results", DefaultMaxResults)

SearchIssues ==
    /\ pc = "jira_search_issues"
    /\ UNCHANGED <<creds, jira_client, tool, arguments, Locals>>
    /\ \E out \in CallOutcomes :
         /\ calls' = Append(calls,
                Call("search_issues", "", out,
                     [jql |-> <<Clause("raw", "", <<Get(arguments, "jql", "")>>)>>,
                      maxResults |-> SearchLimit(arguments)]))
         /\ IF out # "ok"
            THEN Finish(Raised(out))
            ELSE \E found \in SearchResults :
                 IF found = <<>>
                 THEN Finish(Return("no_issues_found", <<>>, NoSummary))
                 ELSE Finish(Return("issue_list",
                                    [i \in DOMAIN found |-> Line("issue", found[i].key)],
                                    NoSummary))

ShownComments == 5

\* comments[-5:]
LastComments(comments) ==
    SubSeq(comments,
           IF Len(comments) > ShownComments THEN Len(comments) - ShownComments + 1 ELSE 1,
           Len(comments))

GetIssue ==
    /\ pc = "jira_get_issue"
    /\ UNCHANGED <<creds, jira_client, tool, arguments, Locals>>
    /\ LET issue_key == Get(arguments, "issue_key", "") IN
       \E out \in CallOutcomes :
         IF out # "ok"
         THEN /\ calls' = Append(calls, Call("issue", issue_key, out, <<>>))
              /\ Finish(Raised(out))
         ELSE \E read \in CallOutcomes :
              IF read # "ok"
              THEN /\ calls' = calls \o <<Call("issue", issue_key, out, <<>>),
                                          Call("comments", issue_key, read, <<>>)>>
                   /\ Finish(Raised(read))
              ELSE \E comments \in CommentLists :
                   /\ calls' = calls \o <<Call("issue", issue_key, out, <<>>),
                                          Call("comments", issue_key, read,
                                               CommentsSeen(comments))>>
                   /\ Finish(Return("issue_detail",
                                    <<Line("issue", issue_key)>> \o
                                    [i \in DOMAIN LastComments(comments) |->
                                        Line("comment", issue_key)],
                                    NoSummary))

\* issue_dict; a field left out of it is modelled as the empty string
IssueDict(args) ==
    [project |-> Get(args, "project_key", ""),
     summary |-> Get(args, "summary", ""),
     description |-> Get(args, "description", ""),
     issuetype |-> Get(args, "issue_type", ""),
     priority |-> Get(args, "priority", "Medium"),
     assignee |-> Get(args, "assignee", "")]

CreateIssue ==
    /\ pc = "jira_create_issue"
    /\ UNCHANGED <<creds, jira_client, tool, arguments, Locals>>
    /\ \E out \in CallOutcomes :
         /\ calls' = Append(calls, Call("create_issue", "", out, IssueDict(arguments)))
         /\ IF out # "ok"
            THEN Finish(Raised(out))
            ELSE \E k \in Keys :
                 Finish(Return("issue_created", <<Line("issue", k)>>, NoSummary))

\* update_fields
UpdateFields(args) == DOMAIN args \cap {"summary", "description", "assignee"}

\* str.lower() on the status names in use
Lower(name) ==
    CASE name = "Done" -> "done"
      [] name = "In Progress" -> "in progress"
      [] name = "Rejected" -> "rejected"
      [] OTHER -> name

TransitionLists == {<<>>, <<"In Progress">>, <<"In Progress", "Done">>}

\* the first transition whose name matches the target, 0 when there is none
RECURSIVE FirstMatch(_, _, _)
FirstMatch(transitions, target_status, i) ==
    IF i > Len(transitions) THEN 0
    ELSE IF Lower(transitions[i]) = Lower(target_status) THEN i
    ELSE FirstMatch(transitions, target_status, i + 1)

\* fetch the issue and update its fields
UpdateIssue ==
    /\ pc = "jira_update_issue"
    /\ UNCHANGED <<creds, jira_client, tool, arguments, Locals>>
    /\ LET issue_key == Get(arguments, "issue_key", "") IN
       \E out \in CallOutcomes :
         IF out # "ok"
         THEN /\ calls' = Append(calls, Call("issue", issue_key, out, <<>>))
              /\ Finish(Raised(out))
         ELSE IF UpdateFields(arguments) = {}
         THEN /\ calls' = Append(calls, Call("issue", issue_key, out, <<>>))
              /\ IF "status" \in DOMAIN arguments
                 THEN pc' = "update_status" /\ UNCHANGED ret
                 ELSE Finish(Return("issue_updated", <<>>, NoSummary))
         ELSE \E upd \in CallOutcomes :
              /\ calls' = calls \o <<Call("issue", issue_key, out, <<>>),
                                     Call("update", issue_key, upd,
                                          UpdateFields(arguments))>>
              /\ IF upd # "ok"
                 THEN Finish(Raised(upd))
                 ELSE IF "status" \in DOMAIN arguments
                 THEN pc' = "update_status" /\ UNCHANGED ret
                 ELSE Finish(Return("issue_updated", <<>>, NoSummary))

\* "Handle status transition separately"
UpdateStatus ==
    /\ pc = "update_status"
    /\ UNCHANGED <<creds, jira_client, tool, arguments, Locals>>
    /\ LET issue_key == Get(arguments, "issue_key", "")
           target_status == arguments["status"]
       IN
       \E out \in CallOutcomes :
         IF out # "ok"
         THEN /\ calls' = Append(calls, Call("transitions", issue_key, out, <<>>))
              /\ Finish(Raised(out))
         ELSE \E transitions \in TransitionLists :
              LET m == FirstMatch(transitions, target_status, 1)
                  listed == Call("transitions", issue_key, out, transitions)
              IN
              IF m = 0
              THEN /\ calls' = Append(calls, listed)
                   /\ Finish(Return("status_not_available", <<>>, NoSummary))
              ELSE \E moved \in CallOutcomes :
                   /\ calls' = calls \o <<listed,
                                          Call("transition_issue", issue_key, moved,
                                               transitions[m])>>
                   /\ IF moved # "ok"
                      THEN Finish(Raised(moved))
                      ELSE Finish(Return("issue_updated", <<>>, NoSummary))

----------------------------------------------------------------------------
\* handle_call_tool returns the text to the host; nothing of the request
\* survives but the client handle
Respond ==
    /\ pc = "done"
    /\ pc' = "idle"
    /\ tool' = ""
    /\ arguments' = <<>>
    /\ calls' = <<>>
    /\ ret' = Return("none", <<>>, NoSummary)
    /\ FreshLocals
    /\ UNCHANGED <<creds, jira_client>>

Next ==
    \/ \E c \in ToolCalls : HandleCallTool(c[1], c[2])
    \/ Respond
    \/ CosStart
    \/ CosFetch
    \/ CosClassify
    \/ CosBegin
    \/ CosProcess
    \/ CosSummary
    \/ FsStart
    \/ FsClassify
    \/ FsFinish
    \/ AddComment
    \/ SearchIssues
    \/ GetIssue
    \/ CreateIssue
    \/ UpdateIssue
    \/ UpdateStatus

Spec == Init /\ [][Next]_vars

----------------------------------------------------------------------------
(* What the claims speak about *)

InCos == tool = "jira_comment_on_stale_issues"
InFindStale == tool = "jira_find_stale_issues"
InAddComment == tool = "jira_add_comment"

\* positions in the trace of the mutating call
AddCommentAt == {i \in DOMAIN calls : calls[i].op = "add_comment"}

\* positions of the comments() responses the collection loops classified
ClassifiedAt == {i \in DOMAIN calls : calls[i].op = "comments" /\ calls[i].out = "ok"}

\* positions of the explicit-targeting fetches
FetchedAt == {i \in DOMAIN calls : calls[i].op = "issue"}

ReturnedKeys == {ret.lines[i].key : i \in {j \in DOMAIN ret.lines : ret.lines[j].kind = "stale"}}

----------------------------------------------------------------------------
\* C1: in comment_on_stale_issues with mode = "dry_run" the add_comment call
\* is made zero times, at every point of the invocation, whatever the
\* targeting variant and the number of candidates.
C1_DryRunNeverPosts ==
    (InCos /\ Mode = "dry_run") => AddCommentAt = {}

\* a dry-run report over two candidates, both ready to be commented on
C1_Witness ==
    /\ InCos /\ Mode = "dry_run" /\ "mode" \in DOMAIN arguments
    /\ pc = "done" /\ ret.kind = "report"
    /\ ret.summary.ready = 2

\* C2 (as claimed): add_comment invoked with mode omitted or other than
\* "live" posts nothing to the tracker.
C2_AddCommentDefaultsToDryRun ==
    (InAddComment /\ Get(arguments, "mode", "dry_run") # "live") => AddCommentAt = {}

\* C2 (amended): the add_comment tool has no mode: every invocation that
\* gets past the client initialisation has made, when it returns, exactly one
\* add_comment call, for the given issue key and text, whatever mode is
\* supplied or omitted, and the confirmation is returned exactly when that
\* call succeeded.
C2_AddCommentAlwaysPosts ==
    (InAddComment /\ pc = "done" /\ jira_client = "JIRA") =>
        /\ Cardinality(AddCommentAt) = 1
        /\ \A i \in AddCommentAt :
             /\ calls[i].key = arguments["issue_key"]
             /\ calls[i].arg = arguments["comment"]
             /\ (ret.kind = "comment_added") <=> (calls[i].out = "ok")

\* add_comment with the mode left out has posted
C2_Witness ==
    /\ InAddComment /\ pc = "done" /\ "mode" \notin DOMAIN arguments
    /\ ret.kind = "comment_added"
    /\ \E i \in AddCommentAt : calls[i].out = "ok"

\* C3: when the summary is produced, posted + failed + skipped <= processed,
\* processed being the number of collected candidates, and posted = 0 in
\* dry_run mode.
C3_CountsWithinProcessed ==
    (InCos /\ pc = "done" /\ ret.kind = "report") =>
        /\ ret.summary.processed = Len(issues_to_process)
        /\ commented_count + failed_count + skipped_count <= ret.summary.processed
        /\ ret.summary.posted + ret.summary.failed + ret.summary.skipped
              <= ret.summary.processed
        /\ Mode = "dry_run" => commented_count = 0 /\ ret.summary.posted = 0

\* a live report with one comment posted and one failed
C3_Witness ==
    /\ InCos /\ pc = "done" /\ ret.kind = "report" /\ Mode = "live"
    /\ commented_count = 1 /\ failed_count = 1
    /\ ret.summary.processed = 2

\* C4 (as claimed): in live mode, whatever failure add_comment raises for a
\* candidate, the batch is not aborted: the invocation ends with the report,
\* and every candidate was reached (skipped or attempted).
C4_FailureNeverAborts ==
    (InCos /\ Mode = "live" /\ pc = "done"
        /\ \E i \in AddCommentAt : calls[i].out # "ok") =>
        /\ ret.kind = "report"
        /\ Cardinality(AddCommentAt) + skipped_count = Len(issues_to_process)

\* C5 (as claimed): with explicit targeting, every key whose fetch the tracker
\* rejected has its failure record in the returned output, whatever the other
\* keys yield.
C5_FetchFailureRecorded ==
    (InCos /\ TargetScope = "specific_issues" /\ pc = "done") =>
        \A i \in FetchedAt :
            calls[i].out = "JIRAError" =>
                \E j \in DOMAIN ret.lines :
                    ret.lines[j] = Line("failed_to_fetch", calls[i].key)

\* C6 (as claimed): with explicit targeting, the report's skipped count is the
\* number of supplied keys whose fetched issue has no assignee.
C6_SkippedCountsUnassigned ==
    (InCos /\ TargetScope = "specific_issues" /\ pc = "done" /\ ret.kind = "report") =>
        ret.summary.skipped =
            Cardinality({i \in FetchedAt : calls[i].out = "ok" /\ ~calls[i].arg})

\* C7: find_stale_issues with include_no_comments = false never lists an
\* issue whose comment list came back empty; with include_no_comments = true
\* it lists every one of them.
C7_NoCommentsFollowFlag ==
    InFindStale =>
        /\ ~IncludeNoComments =>
              \A i \in DOMAIN stale_issues : stale_issues[i].comments_count # 0
        /\ (pc = "done" /\ ret.kind \in {"stale_list", "no_stale_issues"}) =>
              \A i \in ClassifiedAt :
                  calls[i].arg.count = 0 =>
                      (calls[i].key \in ReturnedKeys <=> IncludeNoComments)

\* include_no_comments = false: an issue without comments was classified, and
\* the listing returned holds another issue only
C7_Witness ==
    /\ InFindStale /\ ~IncludeNoComments /\ pc = "done" /\ ret.kind = "stale_list"
    /\ \E i \in ClassifiedAt : calls[i].arg.count = 0 /\ calls[i].key \notin ReturnedKeys

\* C8 (as claimed): whenever the latest comment's timestamp cannot be parsed,
\* for whatever reason, the issue is in the stale set.
C8_UnparseableIsStale ==
    (InFindStale \/ InCos) =>
    \A i \in ClassifiedAt :
        (calls[i].arg.count > 0 /\ ParseCreated(calls[i].arg.latest).res # "ok") =>
            \/ InFindStale /\ \E j \in DOMAIN stale_issues :
                                  stale_issues[j].issue.key = calls[i].key
            \/ InCos /\ \E j \in DOMAIN issues_to_process :
                            issues_to_process[j].key = calls[i].key

SearchAt == {i \in DOMAIN calls : calls[i].op = "search_issues"}

C11_SearchClampedTo25 ==
    \A i \in SearchAt : calls[i].arg.maxResults <= 25

\* C11 (amended): no count is clamped: the search_issues tool passes the
\* caller's max_results on unchanged, 50 when it is omitted, and the searches
\* of find_stale_issues and comment_on_stale_issues always ask for 1000.
C11_SearchLimitPassedOn ==
    \A i \in SearchAt :
        calls[i].arg.maxResults =
            IF tool = "jira_search_issues"
            THEN (IF "max_results" \in DOMAIN arguments
                  THEN arguments["max_results"] ELSE DefaultMaxResults)
            ELSE SearchMaxResults

\* a search for 100 results went out as asked and its listing was returned
C11_Witness ==
    /\ tool = "jira_search_issues" /\ pc = "done" /\ ret.kind = "issue_list"
    /\ "max_results" \in DOMAIN arguments /\ arguments["max_results"] = 100
    /\ \E i \in SearchAt : calls[i].arg.maxResults = 100

\* the scope of a comment_on_stale_issues invocation cannot be resolved:
\* explicit targeting without keys, or discovery without a project key
NoScope ==
    IF TargetScope = "specific_issues"
    THEN Len(SpecificIssues) = 0
    ELSE ProjectKey = ""

\* C12: a comment_on_stale_issues invocation whose scope cannot be resolved
\* returns an error text and makes no search, no issue or comments fetch and
\* no add_comment call.
C12_NoScopeNoCalls ==
    (InCos /\ NoScope) =>
        /\ \A i \in DOMAIN calls :
              calls[i].op \notin {"search_issues", "issue", "comments", "add_comment"}
        /\ pc \in {"jira_comment_on_stale_issues", "done"}
        /\ pc = "done" =>
              ret.kind \in {"no_specific_issues", "project_key_required", "error"}

\* a live discovery without a project key was refused by an initialised
\* client
C12_Witness ==
    /\ InCos /\ NoScope /\ pc = "done" /\ jira_client = "JIRA"
    /\ ret.kind = "project_key_required" /\ Mode = "live"

\* the texts a tool invocation can return
ResultTexts ==
    {"error", "jira_error", "unknown_tool",
     "no_specific_issues", "project_key_required", "no_active_issues",
     "no_stale_issues", "report", "stale_list", "no_issues_found",
     "comment_added", "issue_list", "issue_detail", "issue_created",
     "issue_updated", "status_not_available"}

\* C13: every invocation that handle_call_tool has finished returned a text:
\* missing credentials, a failed client initialisation, an unknown tool name
\* and any exception of a client call all end in an error text, and no
\* exception leaves the handler.
C13_AlwaysText ==
    pc = "done" =>
        /\ ret.kind \in ResultTexts
        /\ (~creds /\ jira_client = "None") => ret.kind = "error"
        /\ (jira_client = "JIRA" /\ tool \notin KnownTools) => ret.kind = "unknown_tool"
        /\ (/\ calls # <<>>
            /\ calls[Len(calls)].out = "Exception"
            \* the collection loops swallow what comments() raises
            /\ ~(calls[Len(calls)].op = "comments" /\ (InCos \/ InFindStale)))
           => ret.kind = "error"

\* an unexpected exception of add_comment, raised on a client that had been
\* initialised with credentials, answered with the error text
C13_Witness ==
    /\ pc = "done" /\ ret.kind = "error" /\ creds
    /\ InAddComment /\ calls # <<>>
    /\ calls[Len(calls)].op = "add_comment"
    /\ calls[Len(calls)].out = "Exception"
\* the keys the running discovery has collected as stale so far
CollectedKeys ==
    IF InFindStale
    THEN {stale_issues[j].issue.key : j \in DOMAIN stale_issues}
    ELSE {issues_to_process[j].key : j \in DOMAIN issues_to_process}

InDiscovery == InFindStale \/ (InCos /\ TargetScope # "specific_issues")

\* C14: in both discoveries an issue whose comments() response holds at
\* least one comment, the last of which carries a timestamp that parses, is
\* collected as stale exactly when that timestamp lies strictly before the
\* clock reading minus days_threshold days; a last comment made at the clock
\* reading is not stale under threshold 0.
C14_StaleIffStrictlyOlder ==
    InDiscovery =>
        \A i \in ClassifiedAt :
            LET seen == calls[i].arg
                p == ParseCreated(seen.latest)
            IN  (seen.count > 0 /\ p.res = "ok") =>
                    ((calls[i].key \in CollectedKeys) <=> (p.t < now - DaysThreshold))

\* find_stale_issues with threshold 0 met an issue with two comments, the
\* last one made at the clock reading, and did not list it
C14_Witness ==
    /\ InFindStale /\ pc = "done" /\ DaysThreshold = 0
    /\ \E i \in ClassifiedAt :
         /\ calls[i].arg.count = 2
         /\ ParseCreated(calls[i].arg.latest).res = "ok"
         /\ ParseCreated(calls[i].arg.latest).t = now
         /\ calls[i].key \notin CollectedKeys
RECURSIVE IsSubseq(_, _)
\* a is b with some elements left out, the order kept
IsSubseq(a, b) ==
    IF a = <<>> THEN TRUE
    ELSE IF b = <<>> THEN FALSE
    ELSE IF a[1] = b[1] THEN IsSubseq(Tail(a), Tail(b))
    ELSE IsSubseq(a, Tail(b))

IsAddCommentCall(c) == c.op = "add_comment"

\* the issue keys of the add_comment calls, in the order they were made
PostedKeys ==
    LET posts == SelectSeq(calls, IsAddCommentCall)
    IN  [i \in DOMAIN posts |-> posts[i].key]

\* the issue keys in the order the search returned them or the caller
\* supplied them
SourceKeys ==
    IF TargetScope = "specific_issues"
    THEN SpecificIssues
    ELSE [i \in DOMAIN issues |-> issues[i].key]

\* C15: comment_on_stale_issues takes its candidates one after the other in
\* the order of the search result, or of the supplied keys: the candidates
\* collected, and the add_comment calls made for them, follow that order with
\* some issues left out.
C15_PostsInSourceOrder ==
    InCos =>
        /\ IsSubseq([i \in DOMAIN issues_to_process |-> issues_to_process[i].key],
                    SourceKeys)
        /\ IsSubseq(PostedKeys, SourceKeys)

\* a live discovery posted on two different issues, in the order of the
\* search result
C15_Witness ==
    /\ InCos /\ Mode = "live" /\ TargetScope = "all_stale"
    /\ pc = "done" /\ ret.kind = "report"
    /\ Len(PostedKeys) = 2 /\ PostedKeys[1] # PostedKeys[2]
    /\ PostedKeys = SourceKeys
HasAssignee(issue) == issue.assignee

\* how many candidates the posting loop has taken up so far
ReachedCandidates ==
    CASE pc = "cos_post" -> idx - 1
      [] pc = "done" /\ ret.kind = "report" -> Len(issues_to_process)
      [] /\ pc = "done" /\ ret.kind = "error" /\ calls # <<>>
         /\ calls[Len(calls)].op = "add_comment" -> idx
      [] OTHER -> 0

AnnouncesLive ==
    \E i \in DOMAIN ret.lines : ret.lines[i].kind = "live_mode"

\* C17 (as claimed): for every value of mode the report agrees with what was
\* done: add_comment calls are made only when mode is exactly "live", and a
\* report that announces live mode over a candidate with an assignee comes
\* from an invocation that attempted add_comment.
C17_ReportAgreesWithMode ==
    InCos =>
        /\ (AddCommentAt # {}) => (Mode = "live")
        /\ (/\ pc = "done" /\ ret.kind = "report" /\ AnnouncesLive
            /\ \E i \in DOMAIN issues_to_process : issues_to_process[i].assignee)
           => (AddCommentAt # {})
InUpdateIssue == tool = "jira_update_issue"

\* C18 (as claimed): an update_issue invocation that answers "status not
\* available" has performed no transition and has not changed summary,
\* description or assignee of the issue.
C18_UpdateAllOrNothing ==
    (InUpdateIssue /\ pc = "done" /\ ret.kind = "status_not_available") =>
        \A i \in DOMAIN calls :
            /\ calls[i].op # "transition_issue"
            /\ ~(calls[i].op = "update" /\ calls[i].out = "ok")
----------------------------------------------------------------------------
(* The two discovery loops side by side: find_stale_issues' loop over issues
   and comment_on_stale_issues' loop over all_issues, run over one search
   result, one clock reading and the same comments() responses *)

\* days_threshold is read with arguments.get and not validated
StaleThresholds == {-1, 0, 1}

StaleArgs ==
    {("project_key" :> "PROJ") @@ ("days_threshold" :> d)
        @@ ("include_no_comments" :> b) : d \in StaleThresholds, b \in BOOLEAN}

StaleInit ==
    /\ creds = TRUE
    /\ jira_client = "JIRA"
    /\ pc = "stale_search"
    /\ tool = "stale_discovery"
    /\ arguments \in StaleArgs
    /\ calls = <<>>
    /\ issues = <<>>
    /\ idx = 1
    /\ threshold_date = 0
    /\ now = 0
    /\ issues_to_process = <<>>
    /\ stale_issues = <<>>
    /\ result = <<>>
    /\ commented_count = 0
    /\ failed_count = 0
    /\ skipped_count = 0
    /\ ret = Return("none", <<>>, NoSummary)

\* the search returned a non-empty list; the cutoff is taken from the clock
StaleSearch ==
    /\ pc = "stale_search"
    /\ \E found \in SearchResults \ {<<>>}, clock \in Times :
         /\ issues' = found
         /\ now' = clock
         /\ threshold_date' = ThresholdDate(clock, DaysThreshold)
    /\ idx' = 1
    /\ pc' = "stale_fetch"
    /\ UNCHANGED <<creds, jira_client, tool, arguments, calls, issues_to_process,
                   stale_issues, result, commented_count, failed_count,
                   skipped_count, ret>>

\* self.jira_client.comments(issue) for the issue at idx returns or raises
StaleFetch ==
    /\ pc = "stale_fetch"
    /\ idx <= Len(issues)
    /\ \E out \in CallOutcomes :
         IF out # "ok"
         THEN calls' = <<Call("comments", issues[idx].key, out, <<>>)>>
         ELSE \E comments \in CommentLists :
              calls' = <<Call("comments", issues[idx].key, out, comments)>>
    /\ pc' = "stale_classify"
    /\ UNCHANGED <<creds, jira_client, tool, arguments, issues, idx, threshold_date,
                   now, issues_to_process, stale_issues, result, commented_count,
                   failed_count, skipped_count, ret>>

\* both loop bodies classify that response
StaleClassify ==
    /\ pc = "stale_classify"
    /\ LET c == calls[1] IN
       /\ stale_issues' = FsStep(stale_issues, issues[idx], c.out, c.arg,
                                 IncludeNoComments, threshold_date)
       /\ issues_to_process' = CosStep(issues_to_process, issues[idx], c.out, c.arg,
                                       threshold_date)
    /\ idx' = idx + 1
    /\ calls' = <<>>
    /\ pc' = "stale_fetch"
    /\ UNCHANGED <<creds, jira_client, tool, arguments, issues, threshold_date, now,
                   result, commented_count, failed_count, skipped_count, ret>>

StaleNext == StaleSearch \/ StaleFetch \/ StaleClassify

StaleSpec == StaleInit /\ [][StaleNext]_vars

\* C19: for one clock reading and one comments() response, an issue that
\* either loop collects under days_threshold is collected by it under every
\* lower threshold too; zero and negative thresholds are taken as they come
\* and only move the cutoff, which is the clock reading minus the threshold.
C19_StaleMonotone ==
    [][pc = "stale_classify" =>
         LET c == calls[1]
             issue == issues[idx]
         IN  /\ threshold_date = now - DaysThreshold
             /\ \A t1 \in StaleThresholds :
                  t1 <= DaysThreshold =>
                    /\ (stale_issues' # stale_issues) =>
                          FsStep(stale_issues, issue, c.out, c.arg, IncludeNoComments,
                                 ThresholdDate(now, t1)) # stale_issues
                    /\ (issues_to_process' # issues_to_process) =>
                          CosStep(issues_to_process, issue, c.out, c.arg,
                                  ThresholdDate(now, t1)) # issues_to_process
    ]_vars

\* under threshold -1 and clock reading 0 a last comment that parsed, made
\* at the clock reading, was collected by both loops
C19_Witness ==
    /\ pc = "stale_fetch" /\ DaysThreshold = -1 /\ now = 0
    /\ issues_to_process # <<>>
    /\ \E j \in DOMAIN stale_issues :
         stale_issues[j].latest_comment_date = "datetime"

\* C20: with include_no_comments = true the stale list of find_stale_issues
\* and the candidate list of comment_on_stale_issues' discovery hold the same
\* issues in the same order, for the same search result, comments, clock
\* reading and threshold.
C20_DiscoveriesAgree ==
    (pc \in {"stale_fetch", "stale_classify"} /\ IncludeNoComments) =>
        [j \in DOMAIN stale_issues |-> stale_issues[j].issue] = issues_to_process

\* both loops went through two issues and collected both, the first for
\* having no comments, the second for a date that does not parse
C20_Witness ==
    /\ pc = "stale_fetch" /\ IncludeNoComments /\ idx = 3
    /\ Len(stale_issues) = 2 /\ Len(issues_to_process) = 2
    /\ stale_issues[1].comments_count = 0
    /\ stale_issues[2].latest_comment_date = "str"
----------------------------------------------------------------------------
\* positions in the trace of the client construction JIRA(...)
LoginAt == {i \in DOMAIN calls : calls[i].op = "JIRA"}

\* positions in the trace of operations on the tracker
TrackerOpAt == DOMAIN calls \ LoginAt

\* C21: over any sequence of invocations no tracker operation runs while
\* the client handle is unset; the handle is created by the first call whose
\* login succeeds, and once set it is neither reset nor created again; an
\* invocation whose initialisation fails, for missing credentials or a
\* rejected login, leaves the handle unset and returns the error text with
\* no tracker operation, and the invocation after it tries again.
C21_LazyClientHandle ==
    [][/\ jira_client \in {"None", "JIRA"}
       \* unset: no handler is running and nothing was asked of the tracker
       /\ jira_client = "None" =>
            /\ pc \in {"idle", "done"}
            /\ TrackerOpAt = {}
            /\ \A i \in LoginAt : calls[i].out # "ok"
            /\ pc = "done" => ret.kind = "error"
       \* set: it stays, and this invocation logged in at most once, first
       /\ jira_client = "JIRA" =>
            /\ jira_client' = "JIRA"
            /\ \A i \in LoginAt : i = 1 /\ calls[i].out = "ok"
       \* an invocation arriving at an unset handle tries to initialise it
       /\ (jira_client = "None" /\ pc = "idle" /\ pc' # "idle") =>
            IF creds
            THEN /\ Len(calls') = 1 /\ calls'[1].op = "JIRA"
                 /\ (jira_client' = "JIRA") <=> (calls'[1].out = "ok")
            ELSE calls' = <<>> /\ jira_client' = "None" /\ pc' = "done"
       \* an invocation arriving at a set handle does not log in
       /\ (jira_client = "JIRA" /\ pc = "idle") => calls' = <<>>
    ]_vars

\* a comment was added by an invocation that made no login of its own: the
\* handle was the one an earlier invocation had created
C21_Witness ==
    /\ InAddComment /\ pc = "done" /\ ret.kind = "comment_added"
    /\ jira_client = "JIRA"
    /\ LoginAt = {} /\ Cardinality(TrackerOpAt) = 1
====
